---- MODULE Spec2Model ----
(***************************************************************************)
(* A model of bear's intercept module (src/rust/bear/src/intercept/mod.rs).*)
(*                                                                         *)
(* Spec      the life cycle of a CollectorService and of the              *)
(*           InterceptEnvironment that owns it: the owner thread, the      *)
(*           network worker, the processing worker and the reporters.      *)
(* LiveSpec  Spec with the fairness the thread scheduler gives.            *)
(* PathSpec  the pure part: insert_to_path, path_to_string, environment(). *)
(***************************************************************************)
EXTENDS Naturals, Sequences, FiniteSets, TLC

(* ------------------------------ bounds --------------------------------- *)

\* Envelopes one reporter connection tries to send.
MaxEvents == 2
\* Length of config::Intercept::Wrapper::executables.
MaxExecutables == 2
\* Calls of execute_build_command on one environment.
MaxBuilds == 1
\* Length of BuildCommand::arguments.
MaxArgs == 1

\* Reporter connections.
Reporters == {"r1", "r2"}

\* Files that exist before the program runs, and the paths a configuration
\* may name: "shim" is an existing wrapper binary, "free" a path where no
\* file exists yet.
Executables == <<"cc", "gcc", "c++">>
InitialFiles == {<<"fs", "shim">>} \cup {<<"fs", Executables[i]>> : i \in DOMAIN Executables}
ShimPaths == {<<"fs", "shim">>, <<"fs", "free">>}

\* The values of config::Intercept handed to InterceptEnvironment::new.
Configs ==
    {[mode |-> "Preload", path |-> <<"fs", "lib">>, executables |-> <<>>]}
    \cup {[mode |-> "Wrapper", path |-> p, executables |-> e] :
            p \in ShimPaths,
            e \in {[i \in 1..k |-> <<"fs", Executables[i]>>] : k \in 0..MaxExecutables}}

NoConfig == [mode |-> "None", path |-> <<"fs", "none">>, executables |-> <<>>]

VARIABLES
    ownerPc,      \* position of the thread that owns the service
    config,       \* the config::Intercept given to InterceptEnvironment::new
    linkIdx,      \* index of the hard-link loop of new
    newResult,    \* result of InterceptEnvironment::new
    files,        \* the paths that exist in the file system
    binDir,       \* the tempfile::TempDir of Wrapper mode
    env,          \* variant of the InterceptEnvironment value
    builds,       \* calls of execute_build_command so far
    child,        \* the supervised build command
    execResult,   \* result of the last execute_build_command
    bound,        \* the collector listens on its address
    stopped,      \* the collector has seen stop()
    stopCalls,    \* calls of Collector::stop
    stopResult,   \* what the call of Collector::stop in drop() returned
    backlog,      \* per connection: envelopes delivered, not yet forwarded
    chan,         \* the mpsc channel of CollectorService::new
    consumed,     \* per connection: envelopes the consumer has received
    netPc,        \* position of the network worker
    netResult,    \* result of collect()
    outPc,        \* position of the processing worker
    outResult,    \* result of consumer()
    sent,         \* per connection: envelopes delivered to the collector
    pProcess,     \* PathSpec: the environment of the calling process
    pCollector,   \* PathSpec: the address of the service given to new()
    pSelf,        \* PathSpec: the InterceptEnvironment value
    pOverlay,     \* PathSpec: the result of environment()
    pOriginal,    \* PathSpec: argument `original` of insert_to_path
    pFirst,       \* PathSpec: argument `first` of insert_to_path
    pResult,      \* PathSpec: the result of insert_to_path
    pAgain,       \* PathSpec: insert_to_path applied to that result
    pNested       \* PathSpec: environment() of a process that has the overlay

serviceVars == <<ownerPc, config, linkIdx, newResult, files, binDir, env, builds,
                 child, execResult, bound, stopped, stopCalls, stopResult,
                 backlog, chan,
                 consumed, netPc, netResult, outPc, outResult, sent>>
pathVars == <<pProcess, pCollector, pSelf, pOverlay, pOriginal, pFirst, pResult,
              pAgain, pNested>>
vars == <<serviceVars, pathVars>>

ownerVars == <<ownerPc, config, linkIdx, newResult, files, binDir, env, builds,
               child, execResult>>
collectorVars == <<bound, stopped, stopCalls, stopResult>>
pipeVars == <<backlog, chan, consumed, sent>>
workerVars == <<netPc, netResult, outPc, outResult>>

ServiceInit ==
    /\ ownerPc = "start"
    /\ config = NoConfig
    /\ linkIdx = 0
    /\ newResult = "none"
    /\ files = InitialFiles
    /\ binDir = "none"
    /\ env = "None"
    /\ builds = 0
    /\ child = <<"none", 0>>
    /\ execResult = <<"none", 0>>
    /\ bound = FALSE
    /\ stopped = FALSE
    /\ stopCalls = 0
    /\ stopResult = "none"
    /\ backlog = [c \in Reporters |-> <<>>]
    /\ chan = <<>>
    /\ consumed = [c \in Reporters |-> <<>>]
    /\ netPc = "none"
    /\ netResult = "none"
    /\ outPc = "none"
    /\ outResult = "none"
    /\ sent = [c \in Reporters |-> <<>>]

(* ------------------ strings, paths and the environment ------------------ *)

\* Strings are sequences of characters; ":" is the delimiter of PATH. An OS
\* string (the value of a variable, a path) is its text and whether that text
\* is valid Unicode; only a non-empty text can fail to be.
Char == {"a", "b", ":"}
MaxOriginalLen == 3
MaxFirstLen == 2

RECURSIVE SeqsUpTo(_, _)
SeqsUpTo(S, n) ==
    IF n = 0 THEN {<<>>}
    ELSE LET shorter == SeqsUpTo(S, n - 1)
         IN  shorter \cup {Append(s, x) : s \in {t \in shorter : Len(t) = n - 1}, x \in S}

Addresses == {"127.0.0.1:4000", "127.0.0.1:4001"}
VarNames == {"PATH", "LD_PRELOAD"}
KEY_DESTINATION == "INTERCEPT_REPORTER_ADDRESS"
KEY_PRELOAD_PATH == "LD_PRELOAD"

NoSelf == [variant |-> "None", path |-> [unicode |-> TRUE, text |-> <<>>], address |-> ""]
NoResult == <<FALSE, <<>>>>

\* std::env::var(key).unwrap_or_else(|_| String::new()): the value when the
\* variable is set and valid Unicode, the empty string otherwise.
env_var(process, key) ==
    IF process[key].set /\ process[key].unicode THEN process[key].text ELSE <<>>

\* path.to_str().unwrap_or("").to_string()
path_to_string(path) == IF path.unicode THEN path.text ELSE <<>>

\* str::split(':'): the pieces between the delimiters; one more piece than
\* there are delimiters, so the empty string has one empty piece.
RECURSIVE split(_)
split(str) ==
    IF str = <<>> THEN << <<>> >>
    ELSE LET rest == split(Tail(str))
         IN  IF Head(str) = ":"
             THEN << <<>> >> \o rest
             ELSE << <<Head(str)>> \o Head(rest) >> \o Tail(rest)

\* [&str]::join(":")
RECURSIVE join(_)
join(paths) ==
    IF paths = <<>> THEN <<>>
    ELSE IF Len(paths) = 1 THEN paths[1]
    ELSE paths[1] \o <<":">> \o join(Tail(paths))

\* original.split(':').filter(|it| it != &first).collect()
filter(paths, first) == SelectSeq(paths, LAMBDA it : it # first)

\* Mutant: the entries of `original` equal to `first` are not filtered out.
insert_to_path_NoFilter(original, first) == join(<<first>> \o split(original))

\* Mutant: `first` is pushed at the end instead of inserted at position 0.
insert_to_path_Push(original, first) ==
    join(filter(split(original), first) \o <<first>>)

insert_to_path(original, first) ==
    LET paths == filter(split(original), first)
    IN  join(<<first>> \o paths)

\* InterceptEnvironment::environment
environment(self, process) ==
    IF self.variant = "Wrapper"
    THEN LET path_original == env_var(process, "PATH")
             path_updated == insert_to_path(path_original, path_to_string(self.path))
         IN  << <<"PATH", path_updated>>, <<KEY_DESTINATION, self.address>> >>
    ELSE LET path_original == env_var(process, KEY_PRELOAD_PATH)
             path_updated == insert_to_path(path_original, path_to_string(self.path))
         IN  << <<KEY_PRELOAD_PATH, path_updated>>, <<KEY_DESTINATION, self.address>> >>

PathIdle ==
    /\ pProcess = [v \in VarNames |-> [set |-> FALSE, unicode |-> TRUE, text |-> <<>>]]
    /\ pCollector = ""
    /\ pSelf = NoSelf
    /\ pOverlay = <<>>
    /\ pOriginal = <<>>
    /\ pFirst = <<>>
    /\ pResult = NoResult
    /\ pAgain = NoResult
    /\ pNested = <<>>

Init == ServiceInit /\ PathIdle

\* How a variable can appear in the environment of the process.
VarKinds == {[set |-> FALSE, unicode |-> TRUE], [set |-> TRUE, unicode |-> TRUE],
             [set |-> TRUE, unicode |-> FALSE]}

\* The inputs of the pure part: the two strings, the environment of the
\* process (each variable unset, or holding `original` as valid Unicode or
\* not) and the address of the running service.
PathInit ==
    /\ ServiceInit
    /\ pOriginal \in SeqsUpTo(Char, MaxOriginalLen)
    /\ pFirst \in SeqsUpTo(Char, MaxFirstLen)
    /\ pProcess \in {[v \in VarNames |-> [set |-> k[v].set, unicode |-> k[v].unicode,
                                         text |-> IF k[v].set THEN pOriginal ELSE <<>>]] :
                       k \in {f \in [VarNames -> VarKinds] :
                                \A v \in VarNames : f[v].unicode \/ pOriginal # <<>>}}
    /\ pCollector \in Addresses
    /\ pSelf = NoSelf
    /\ pOverlay = <<>>
    /\ pResult = NoResult
    /\ pAgain = NoResult
    /\ pNested = <<>>

\* The value InterceptEnvironment::new builds: address = collector.address(),
\* and the path of the fresh temporary directory (Wrapper) or of the library
\* (Preload); either path may fail to be valid UTF-8.
PNew(variant, unicode) ==
    /\ pSelf = NoSelf
    /\ unicode \/ pFirst # <<>>
    /\ pSelf' = [variant |-> variant,
                 path |-> [unicode |-> unicode, text |-> pFirst],
                 address |-> pCollector]
    /\ UNCHANGED <<serviceVars, pProcess, pCollector, pOverlay, pOriginal, pFirst, pResult,
                   pAgain, pNested>>

\* let environment = self.environment();
PEnvironment ==
    /\ pSelf # NoSelf
    /\ pOverlay = <<>>
    /\ pOverlay' = environment(pSelf, pProcess)
    /\ UNCHANGED <<serviceVars, pProcess, pCollector, pSelf, pOriginal, pFirst, pResult,
                   pAgain, pNested>>

\* A call of insert_to_path(original, first).
PInsertToPath ==
    /\ pResult = NoResult
    /\ pResult' = <<TRUE, insert_to_path(pOriginal, pFirst)>>
    /\ UNCHANGED <<serviceVars, pProcess, pCollector, pSelf, pOverlay, pOriginal, pFirst,
                   pAgain, pNested>>

\* A second call, insert_to_path(result, first), on the result of the first.
PInsertAgain ==
    /\ pResult[1]
    /\ pAgain = NoResult
    /\ pAgain' = <<TRUE, insert_to_path(pResult[2], pFirst)>>
    /\ UNCHANGED <<serviceVars, pProcess, pCollector, pSelf, pOverlay, pOriginal, pFirst,
                   pResult, pNested>>

\* The environment of a child of the build command: the inherited
\* environment with the overlay applied on top (Command::envs); the overlay
\* values are Strings, hence valid Unicode.
Overlaid(process, overlay) ==
    [v \in VarNames |->
        IF v = overlay[1][1]
        THEN [set |-> TRUE, unicode |-> TRUE, text |-> overlay[1][2]]
        ELSE process[v]]

\* A nested interception: environment() of the same variant and path, in a
\* process that runs with the overlay.
PEnvironmentNested ==
    /\ pOverlay # <<>>
    /\ pNested = <<>>
    /\ pNested' = environment(pSelf, Overlaid(pProcess, pOverlay))
    /\ UNCHANGED <<serviceVars, pProcess, pCollector, pSelf, pOverlay, pOriginal, pFirst,
                   pResult, pAgain>>

PathNext ==
    \/ \E variant \in {"Wrapper", "Preload"}, unicode \in BOOLEAN : PNew(variant, unicode)
    \/ PEnvironment
    \/ PInsertToPath
    \/ PInsertAgain
    \/ PEnvironmentNested

PathSpec == PathInit /\ [][PathNext]_vars
(* ------------- Collector, Reporter and consumer: their contracts -------- *)

\* tcp::CollectorOnTcp::new: the listener is bound when the collector is made.
CollectorOnTcpNew == bound' = TRUE

\* Collector::stop returning Ok: a running collect() is told to return.
CollectorStopOk ==
    /\ stopped' = TRUE
    /\ stopCalls' = stopCalls + 1
    /\ stopResult' = "ok"

\* Collector::stop returning Err: the request may or may not have been taken.
CollectorStopErr ==
    /\ stopped' \in BOOLEAN
    /\ stopCalls' = stopCalls + 1
    /\ stopResult' = "err"

\* Mutant: the sender is a field of the CollectorService, dropped with it.
SenderAlive_HeldByService ==
    ownerPc \notin {"drop_join_net", "drop_join_out", "done",
                    "panic_stop", "panic_join_net", "panic_join_out"}

\* Mutant: a clone of the sender is kept in the CollectorService.
SenderAlive_CloneKept == TRUE

\* The sending half of the channel lives in the network worker's closure and
\* is moved into collect(); nothing else holds it.
SenderAlive == netPc \in {"none", "spawned", "collecting"}

\* The receiving half lives in the processing worker's closure and is moved
\* into consumer().
ReceiverAlive == outPc \in {"none", "spawned", "consuming"}

\* Mutant: sync_channel(1): send blocks while an envelope is buffered.
ChannelCanSend_Bounded == Len(chan) < 1

\* Mutant: a rendezvous with the consumer: send waits for a live receiver.
ChannelCanSend_NeedsReceiver == ReceiverAlive

\* channel() is unbounded: Sender::send never waits, whatever is buffered
\* and whether or not the receiver still exists.
ChannelCanSend == TRUE

\* Mutant: the channel loses what is sent while the consumer is behind.
ChannelSend_Lossy(e) == IF ReceiverAlive /\ chan = <<>> THEN Append(chan, e) ELSE chan

\* Sender::send on the unbounded std::sync::mpsc channel: never blocks; the
\* envelope is dropped when the receiver is gone.
ChannelSend(e) == IF ReceiverAlive THEN Append(chan, e) ELSE chan

\* The address is known to others once CollectorService::new has returned.
Published == ownerPc \notin {"start", "spawn_net", "spawn_out", "new_return", "new_failed"}

\* The envelope a connection sends next: its reporter id and a timestamp.
NextEnvelope(c) == <<c, Len(sent[c]) + 1>>

\* Reporter::report over one connection: the envelope reaches the listener
\* when it is bound and the collector has not been stopped. (Otherwise the
\* report fails and nothing changes: reporting is best effort.)
Report(c) ==
    /\ Published
    /\ bound
    /\ ~stopped
    /\ Len(sent[c]) < MaxEvents
    /\ backlog' = [backlog EXCEPT ![c] = Append(@, NextEnvelope(c))]
    /\ sent' = [sent EXCEPT ![c] = Append(@, NextEnvelope(c))]
    /\ UNCHANGED <<pathVars, ownerVars, collectorVars, workerVars, chan, consumed>>

\* collect(): forward the next envelope of one connection to the channel.
CollectForward(c) ==
    /\ netPc = "collecting"
    /\ backlog[c] # <<>>
    /\ ChannelCanSend
    /\ chan' = ChannelSend(Head(backlog[c]))
    /\ backlog' = [backlog EXCEPT ![c] = Tail(@)]
    /\ UNCHANGED <<pathVars, ownerVars, collectorVars, workerVars, consumed, sent>>

\* collect() returns Ok: only after stop(), with every delivered envelope
\* forwarded. Its sender is dropped, and the worker's closure ends.
CollectReturn ==
    /\ netPc = "collecting"
    /\ stopped
    /\ \A c \in Reporters : backlog[c] = <<>>
    /\ netPc' = "done"
    /\ netResult' = "ok"
    /\ UNCHANGED <<pathVars, ownerVars, collectorVars, pipeVars, outPc, outResult>>

\* collect() returns Err on an unrecoverable transport failure; the worker's
\* closure logs it and ends.
CollectError ==
    /\ netPc = "collecting"
    /\ netPc' = "done"
    /\ netResult' = "err"
    /\ UNCHANGED <<pathVars, ownerVars, collectorVars, pipeVars, outPc, outResult>>

\* collect() panics: the thread unwinds and its sender is dropped.
CollectPanic ==
    /\ netPc = "collecting"
    /\ netPc' = "panicked"
    /\ UNCHANGED <<pathVars, ownerVars, collectorVars, pipeVars, netResult, outPc, outResult>>

\* consumer(): receive one envelope.
ConsumerRecv ==
    /\ outPc = "consuming"
    /\ chan # <<>>
    /\ consumed' = [consumed EXCEPT ![Head(chan)[1]] = Append(@, Head(chan))]
    /\ chan' = Tail(chan)
    /\ UNCHANGED <<pathVars, ownerVars, collectorVars, workerVars, backlog, sent>>

\* consumer(): the channel is empty and its sender is gone; return Ok; the
\* worker's closure ends.
ConsumerClosed ==
    /\ outPc = "consuming"
    /\ chan = <<>>
    /\ ~SenderAlive
    /\ outPc' = "done"
    /\ outResult' = "ok"
    /\ UNCHANGED <<pathVars, ownerVars, collectorVars, pipeVars, netPc, netResult>>

\* consumer() returns Err before the channel is closed; the worker's closure
\* logs it and ends.
ConsumerError ==
    /\ outPc = "consuming"
    /\ outPc' = "done"
    /\ outResult' = "err"
    /\ UNCHANGED <<pathVars, ownerVars, collectorVars, pipeVars, netPc, netResult>>

\* consumer() panics.
ConsumerPanic ==
    /\ outPc = "consuming"
    /\ outPc' = "panicked"
    /\ UNCHANGED <<pathVars, ownerVars, collectorVars, pipeVars, netPc, netResult, outResult>>

(* ------------------------ CollectorService::new ------------------------- *)

\* Mutant: the collector is made unbound; binding is left to collect().
NewCollector_Unbound ==
    /\ ownerPc = "start"
    /\ ownerPc' = "spawn_net"
    /\ UNCHANGED <<pathVars, config, linkIdx, newResult, files, binDir, env, builds, child,
                   execResult, collectorVars, pipeVars, workerVars>>

\* let collector = tcp::CollectorOnTcp::new()?; Arc::new(collector)
NewCollector ==
    /\ ownerPc = "start"
    /\ \/ /\ CollectorOnTcpNew
          /\ ownerPc' = "spawn_net"
       \/ /\ ownerPc' = "new_failed"
          /\ UNCHANGED bound
    /\ UNCHANGED <<pathVars, config, linkIdx, newResult, files, binDir, env, builds, child,
                   execResult, stopped, stopCalls, stopResult, pipeVars, workerVars>>

\* channel(); thread::spawn of the network worker's closure
SpawnNetwork ==
    /\ ownerPc = "spawn_net"
    /\ netPc' = "spawned"
    /\ ownerPc' = "spawn_out"
    /\ UNCHANGED <<pathVars, config, linkIdx, newResult, files, binDir, env, builds, child,
                   execResult, collectorVars, pipeVars, netResult, outPc, outResult>>

\* thread::spawn of the processing worker's closure
SpawnOutput ==
    /\ ownerPc = "spawn_out"
    /\ outPc' = "spawned"
    /\ ownerPc' = "new_return"
    /\ UNCHANGED <<pathVars, config, linkIdx, newResult, files, binDir, env, builds, child,
                   execResult, collectorVars, pipeVars, netPc, netResult, outResult>>

\* Ok(CollectorService { .. })
NewReturn ==
    /\ ownerPc = "new_return"
    /\ ownerPc' = "service"
    /\ UNCHANGED <<pathVars, config, linkIdx, newResult, files, binDir, env, builds, child,
                   execResult, collectorVars, pipeVars, workerVars>>

(* --------------------------- the two workers ---------------------------- *)

\* network worker: collector_in_thread.collect(sender)
NetCollect ==
    /\ netPc = "spawned"
    /\ netPc' = "collecting"
    /\ UNCHANGED <<pathVars, ownerVars, collectorVars, pipeVars, netResult, outPc, outResult>>

\* processing worker: consumer(receiver)
OutConsumer ==
    /\ outPc = "spawned"
    /\ outPc' = "consuming"
    /\ UNCHANGED <<pathVars, ownerVars, collectorVars, pipeVars, netPc, netResult, outResult>>

(* ----------------------- InterceptEnvironment::new ---------------------- *)

\* std::fs::hard_link(original, link): a new name `link` for the existing
\* file `original`; fails when `original` is missing or `link` exists.
HardLinkOk(original, link) == original \in files /\ link \notin files

\* The hard links new() has made inside the temporary directory.
LinksInBinDir == {f \in files : f[1] = "bin_dir"}

\* Owner hands the service and a configuration to new(): line 236, and the
\* Preload arm, or the TempDir::with_prefix_in of the Wrapper arm.
EnvNew(cfg) ==
    /\ ownerPc = "service"
    /\ config' = cfg
    /\ \/ /\ cfg.mode = "Preload"
          /\ env' = "Preload"
          /\ newResult' = "ok"
          /\ ownerPc' = "new_ok"
          /\ UNCHANGED <<binDir, linkIdx>>
       \/ /\ cfg.mode = "Wrapper"
          /\ binDir' = "exists"
          /\ linkIdx' = 1
          /\ ownerPc' = "link"
          /\ UNCHANGED <<env, newResult>>
       \/ /\ cfg.mode = "Wrapper"
          /\ newResult' = "err_tempdir"
          /\ ownerPc' = "new_unwind"
          /\ UNCHANGED <<env, binDir, linkIdx>>
    /\ UNCHANGED <<pathVars, files, builds, child, execResult, collectorVars, pipeVars, workerVars>>

\* One turn of `for executable in executables { hard_link(executable, path)? }`
EnvNewHardLink ==
    /\ ownerPc = "link"
    /\ linkIdx <= Len(config.executables)
    /\ IF HardLinkOk(config.executables[linkIdx], config.path)
       THEN /\ files' = files \cup {config.path}
            /\ linkIdx' = linkIdx + 1
            /\ UNCHANGED <<ownerPc, newResult>>
       ELSE /\ newResult' = "err_link"
            /\ ownerPc' = "new_unwind"
            /\ UNCHANGED <<files, linkIdx>>
    /\ UNCHANGED <<pathVars, config, binDir, env, builds, child, execResult, collectorVars,
                   pipeVars, workerVars>>

\* The loop is over: InterceptEnvironment::Wrapper { bin_dir, address, collector }
EnvNewWrapper ==
    /\ ownerPc = "link"
    /\ linkIdx > Len(config.executables)
    /\ env' = "Wrapper"
    /\ newResult' = "ok"
    /\ ownerPc' = "new_ok"
    /\ UNCHANGED <<pathVars, config, linkIdx, files, binDir, builds, child, execResult,
                   collectorVars, pipeVars, workerVars>>

\* Ok(result): new returns the environment; the borrow of config ends.
EnvNewReturn ==
    /\ ownerPc = "new_ok"
    /\ config' = NoConfig
    /\ linkIdx' = 0
    /\ ownerPc' = "env"
    /\ UNCHANGED <<pathVars, newResult, files, binDir, env, builds, child, execResult,
                   collectorVars, pipeVars, workerVars>>

\* Mutant: the service is forgotten on the error path: never stopped or joined.
EnvNewUnwind_Leak ==
    /\ ownerPc = "new_unwind"
    /\ binDir' = IF binDir = "exists" THEN "removed" ELSE binDir
    /\ config' = NoConfig
    /\ linkIdx' = 0
    /\ ownerPc' = "done"
    /\ UNCHANGED <<pathVars, newResult, files, env, builds, child, execResult,
                   collectorVars, pipeVars, workerVars>>

\* A `?` returns the error: the local bin_dir, if made, is dropped (the
\* directory is removed), then the parameter `collector`.
EnvNewUnwind ==
    /\ ownerPc = "new_unwind"
    /\ binDir' = IF binDir = "exists" THEN "removed" ELSE binDir
    /\ config' = NoConfig
    /\ linkIdx' = 0
    /\ ownerPc' = "drop_stop"
    /\ UNCHANGED <<pathVars, newResult, files, env, builds, child, execResult,
                   collectorVars, pipeVars, workerVars>>

(* --------------------- execute_build_command ---------------------------- *)

\* Terminal statuses of the child: ExitStatus::code() is Some(c) or None.
ExitCodes == {0, 3, 255}
FAILURE == 1

\* Mutant: a child killed by a signal is reported as success.
ExitCodeOf_SignalIsZero(status) == IF status[1] = "exited" THEN status[2] % 256 ELSE 0

\* .code().map(|code| ExitCode::from(code as u8)).unwrap_or(ExitCode::FAILURE)
ExitCodeOf(status) == IF status[1] = "exited" THEN status[2] % 256 ELSE FAILURE

\* Where the owner goes when the environment is dropped.
DropEnvPc == IF env = "Wrapper" THEN "drop_bin_dir" ELSE "drop_stop"

\* environment(), then input.arguments[0]: indexing an empty vector panics
\* and the owner unwinds, dropping the environment.
ExecBegin(nargs) ==
    /\ ownerPc = "env"
    /\ builds < MaxBuilds
    /\ builds' = builds + 1
    /\ IF nargs = 0
       THEN /\ execResult' = <<"panic", 0>>
            /\ ownerPc' = DropEnvPc
       ELSE /\ execResult' = <<"running", 0>>
            /\ ownerPc' = "spawn"
    /\ UNCHANGED <<pathVars, config, linkIdx, newResult, files, binDir, env, child,
                   collectorVars, pipeVars, workerVars>>

\* Mutant: the child is started and the call returns without waiting for it.
ExecSpawn_NoWait ==
    /\ ownerPc = "spawn"
    /\ child' = <<"running", 0>>
    /\ ownerPc' = "env"
    /\ UNCHANGED <<pathVars, config, linkIdx, newResult, files, binDir, env, builds,
                   execResult, collectorVars, pipeVars, workerVars>>

\* Mutant: a command that cannot be started is reported as Ok(FAILURE).
ExecSpawn_ErrAsCode ==
    /\ ownerPc = "spawn"
    /\ \/ /\ execResult' = <<"ok", FAILURE>>
          /\ ownerPc' = "env"
          /\ UNCHANGED child
       \/ /\ child' = <<"running", 0>>
          /\ ownerPc' = "supervising"
          /\ UNCHANGED execResult
    /\ UNCHANGED <<pathVars, config, linkIdx, newResult, files, binDir, env, builds,
                   collectorVars, pipeVars, workerVars>>

\* supervise(..)?: the command cannot be started, or the child runs.
ExecSpawn ==
    /\ ownerPc = "spawn"
    /\ \/ /\ execResult' = <<"err", 0>>
          /\ ownerPc' = "env"
          /\ UNCHANGED child
       \/ /\ child' = <<"running", 0>>
          /\ ownerPc' = "supervising"
          /\ UNCHANGED execResult
    /\ UNCHANGED <<pathVars, config, linkIdx, newResult, files, binDir, env, builds,
                   collectorVars, pipeVars, workerVars>>

\* The child ends: with an exit code, or killed by a signal.
ChildExit ==
    /\ child[1] = "running"
    /\ \/ \E c \in ExitCodes : child' = <<"exited", c>>
       \/ child' = <<"signaled", 0>>
    /\ UNCHANGED <<pathVars, ownerPc, config, linkIdx, newResult, files, binDir, env, builds,
                   execResult, collectorVars, pipeVars, workerVars>>

\* supervise returns the status; it is mapped to the exit code.
ExecReturn ==
    /\ ownerPc = "supervising"
    /\ child[1] \in {"exited", "signaled"}
    /\ execResult' = <<"ok", ExitCodeOf(child)>>
    /\ child' = <<"none", 0>>
    /\ ownerPc' = "env"
    /\ UNCHANGED <<pathVars, config, linkIdx, newResult, files, binDir, env, builds,
                   collectorVars, pipeVars, workerVars>>

(* ------------------------------- release -------------------------------- *)

\* The owner releases a service that was never given to an environment.
DropService ==
    /\ ownerPc = "service"
    /\ ownerPc' = "drop_stop"
    /\ UNCHANGED <<pathVars, config, linkIdx, newResult, files, binDir, env, builds, child,
                   execResult, collectorVars, pipeVars, workerVars>>

\* The owner releases the environment: its fields are dropped in the order
\* of their declaration, bin_dir before collector.
DropEnv ==
    /\ ownerPc = "env"
    /\ ownerPc' = DropEnvPc
    /\ UNCHANGED <<pathVars, config, linkIdx, newResult, files, binDir, env, builds, child,
                   execResult, collectorVars, pipeVars, workerVars>>

\* Mutant: bin_dir is a plain PathBuf; dropping it removes nothing.
DropBinDir_Kept ==
    /\ ownerPc = "drop_bin_dir"
    /\ ownerPc' = "drop_stop"
    /\ UNCHANGED <<pathVars, config, linkIdx, newResult, files, binDir, env, builds, child,
                   execResult, collectorVars, pipeVars, workerVars>>

\* Drop of tempfile::TempDir: the directory and what it holds are removed.
DropBinDir ==
    /\ ownerPc = "drop_bin_dir"
    /\ binDir' = "removed"
    /\ files' = files \ LinksInBinDir
    /\ ownerPc' = "drop_stop"
    /\ UNCHANGED <<pathVars, config, linkIdx, newResult, env, builds, child, execResult,
                   collectorVars, pipeVars, workerVars>>

\* Mutant: `let _ = self.collector.stop();`: a failed stop() is ignored.
DropStop_ErrIgnored ==
    /\ ownerPc = "drop_stop"
    /\ CollectorStopOk \/ CollectorStopErr
    /\ ownerPc' = "drop_join_net"
    /\ UNCHANGED <<pathVars, config, linkIdx, newResult, files, binDir, env, builds, child,
                   execResult, bound, pipeVars, workerVars>>

\* self.collector.stop().expect(..)
DropStop ==
    /\ ownerPc = "drop_stop"
    /\ \/ /\ CollectorStopOk
          /\ ownerPc' = "drop_join_net"
       \/ /\ CollectorStopErr
          /\ ownerPc' = "panic_stop"
    /\ UNCHANGED <<pathVars, config, linkIdx, newResult, files, binDir, env, builds, child,
                   execResult, bound, pipeVars, workerVars>>

\* Mutant: the handle of the network worker is taken and dropped, not joined.
DropJoinNetwork_NoJoin ==
    /\ ownerPc = "drop_join_net"
    /\ ownerPc' = "drop_join_out"
    /\ UNCHANGED <<pathVars, config, linkIdx, newResult, files, binDir, env, builds, child,
                   execResult, collectorVars, pipeVars, workerVars>>

\* self.network_thread.take() .. thread.join().expect(..)
DropJoinNetwork ==
    /\ ownerPc = "drop_join_net"
    /\ netPc \in {"done", "panicked"}
    /\ ownerPc' = IF netPc = "done" THEN "drop_join_out" ELSE "panic_join_net"
    /\ UNCHANGED <<pathVars, config, linkIdx, newResult, files, binDir, env, builds, child,
                   execResult, collectorVars, pipeVars, workerVars>>

\* Mutant: the handle of the processing worker is taken and dropped, not joined.
DropJoinOutput_NoJoin ==
    /\ ownerPc = "drop_join_out"
    /\ ownerPc' = "done"
    /\ UNCHANGED <<pathVars, config, linkIdx, newResult, files, binDir, env, builds, child,
                   execResult, collectorVars, pipeVars, workerVars>>

\* self.output_thread.take() .. thread.join().expect(..)
DropJoinOutput ==
    /\ ownerPc = "drop_join_out"
    /\ outPc \in {"done", "panicked"}
    /\ ownerPc' = IF outPc = "done" THEN "done" ELSE "panic_join_out"
    /\ UNCHANGED <<pathVars, config, linkIdx, newResult, files, binDir, env, builds, child,
                   execResult, collectorVars, pipeVars, workerVars>>

(* ----------------------------- specification ---------------------------- *)

Next ==
    \/ NewCollector
    \/ SpawnNetwork
    \/ SpawnOutput
    \/ NewReturn
    \/ NetCollect
    \/ OutConsumer
    \/ \E c \in Reporters : Report(c)
    \/ \E c \in Reporters : CollectForward(c)
    \/ CollectReturn
    \/ CollectError
    \/ CollectPanic
    \/ ConsumerRecv
    \/ ConsumerClosed
    \/ ConsumerError
    \/ ConsumerPanic
    \/ \E cfg \in Configs : EnvNew(cfg)
    \/ EnvNewHardLink
    \/ EnvNewWrapper
    \/ EnvNewReturn
    \/ EnvNewUnwind
    \/ \E n \in 0..MaxArgs : ExecBegin(n)
    \/ ExecSpawn
    \/ ChildExit
    \/ ExecReturn
    \/ DropService
    \/ DropEnv
    \/ DropBinDir
    \/ DropStop
    \/ DropJoinNetwork
    \/ DropJoinOutput

Spec == Init /\ [][Next]_vars

\* Runnable threads are scheduled: the owner inside CollectorService::new,
\* returning an error from InterceptEnvironment::new and inside drop(), the
\* two workers, and the loops of collect() and consumer() take their steps.
\* Nothing is assumed of faults, reporters, the build command or the owner's
\* choices.
Fairness ==
    /\ WF_vars(SpawnNetwork)
    /\ WF_vars(SpawnOutput)
    /\ WF_vars(NewReturn)
    /\ WF_vars(EnvNewUnwind)
    /\ WF_vars(DropStop)
    /\ WF_vars(DropJoinNetwork)
    /\ WF_vars(DropJoinOutput)
    /\ WF_vars(NetCollect)
    /\ WF_vars(OutConsumer)
    /\ WF_vars(\E c \in Reporters : CollectForward(c))
    /\ WF_vars(CollectReturn)
    /\ WF_vars(ConsumerRecv)
    /\ WF_vars(ConsumerClosed)

LiveSpec == Spec /\ Fairness

\* The same scheduling, except that the processing worker may stall for ever:
\* nothing is assumed of the consumer's steps.
FairnessButConsumer ==
    /\ WF_vars(SpawnNetwork)
    /\ WF_vars(SpawnOutput)
    /\ WF_vars(NewReturn)
    /\ WF_vars(EnvNewUnwind)
    /\ WF_vars(DropStop)
    /\ WF_vars(DropJoinNetwork)
    /\ WF_vars(DropJoinOutput)
    /\ WF_vars(NetCollect)
    /\ WF_vars(\E c \in Reporters : CollectForward(c))
    /\ WF_vars(CollectReturn)

StalledConsumerSpec == Spec /\ FairnessButConsumer

(* -------------------------------- claims -------------------------------- *)

\* Positions of the owner inside CollectorService::drop and after it.
JoinNetPcs == {"drop_join_net", "panic_join_net"}
JoinOutPcs == {"drop_join_out", "panic_join_out", "done"}
WorkerEnded(pc) == pc \in {"done", "panicked"}

\* A collaborator broke its contract: stop() failed or a worker panicked.
ShutdownFault ==
    \/ ownerPc = "panic_stop"
    \/ netPc = "panicked"
    \/ outPc = "panicked"

\* collect() or consumer() ended early, with an error or a panic.
PipelineFault ==
    \/ netResult = "err"
    \/ outResult = "err"
    \/ netPc = "panicked"
    \/ outPc = "panicked"

\* C1: shutdown runs once and in order: stop() is called at most once, no
\* worker is joined before stop() was called, and the join of the processing
\* worker begins only after the network worker has terminated.
C1_ShutdownOrder ==
    /\ stopCalls <= 1
    /\ ownerPc \in JoinNetPcs \cup JoinOutPcs => stopCalls = 1
    /\ ownerPc \in JoinOutPcs => WorkerEnded(netPc)
    /\ ownerPc = "done" => WorkerEnded(outPc)

C1_Witness ==
    /\ ownerPc = "done"
    /\ stopCalls = 1
    /\ netPc = "done"
    /\ outPc = "done"
    /\ \E c \in Reporters : consumed[c] # <<>>

\* C2: under fair scheduling a shutdown that has begun completes with both
\* workers terminated, unless stop() fails or a worker panics.
C2_ShutdownTerminates ==
    (ownerPc = "drop_stop")
        ~> ((ownerPc = "done" /\ netPc = "done" /\ outPc = "done") \/ ShutdownFault)

C2_Witness ==
    /\ ownerPc = "done"
    /\ netPc = "done"
    /\ outPc = "done"
    /\ \A c \in Reporters : Len(sent[c]) = MaxEvents

\* C3: when shutdown has completed and neither collect() nor the consumer
\* ended early, the consumer has received, for each connection, exactly the
\* envelopes that connection sent, in the order sent.
C3_ExactlyOnceInOrder ==
    (ownerPc = "done" /\ ~PipelineFault) => \A c \in Reporters : consumed[c] = sent[c]

C3_Witness ==
    /\ ownerPc = "done"
    /\ ~PipelineFault
    /\ \A c \in Reporters : Len(sent[c]) = MaxEvents /\ consumed[c] = sent[c]

\* C4: whenever the address is available the collector is already bound, and
\* every envelope delivered to it, also before collect() has begun, is
\* eventually received by the consumer unless collect() or the consumer ends
\* early.
C4_NoStartupRace ==
    /\ [](Published => bound)
    /\ \A c \in Reporters : \A n \in 1..MaxEvents :
          (Len(sent[c]) >= n) ~> (Len(consumed[c]) >= n \/ PipelineFault)

C4_Witness ==
    /\ netPc = "spawned"
    /\ bound
    /\ \E c \in Reporters : backlog[c] # <<>>

\* C5: stop() is never called while execute_build_command is in progress, the
\* owner stays in the call while the child runs, and a supervision ends only
\* with the child's terminal status.
ExecPcs == {"spawn", "supervising"}
C5_BuildNotInterrupted ==
    /\ []((ownerPc \in ExecPcs \/ child[1] # "none") => (stopCalls = 0 /\ ~stopped))
    /\ [](child[1] # "none" => ownerPc = "supervising")
    /\ [][(ownerPc = "supervising" /\ ownerPc' # "supervising")
            => (child[1] \in {"exited", "signaled"} /\ ownerPc' = "env"
                /\ execResult'[1] = "ok")]_vars

C5_Witness ==
    /\ stopCalls = 1
    /\ execResult[1] = "ok"

\* C6: once the environment is released, or new() has failed, the temporary
\* directory of Wrapper mode does not exist.
ReleasedPcs == {"drop_stop", "drop_join_net", "drop_join_out", "done",
                "panic_stop", "panic_join_net", "panic_join_out"}
C6_BinDirRemoved == ownerPc \in ReleasedPcs => binDir # "exists"

C6_Witness ==
    /\ ownerPc = "done"
    /\ newResult = "err_link"
    /\ binDir = "removed"

\* C7: after a successful Wrapper-mode new() the temporary directory holds
\* one link per configured executable, and new() fails at the hard-link step
\* only when the file system does not permit the links.
ExpectedLinks(cfg) == {<<"bin_dir", cfg.executables[i][2]>> : i \in DOMAIN cfg.executables}
LinkingPermitted(cfg) == \A i \in DOMAIN cfg.executables : cfg.executables[i] \in InitialFiles
C7_OneLinkPerExecutable ==
    /\ (ownerPc = "new_ok" /\ env = "Wrapper") => LinksInBinDir = ExpectedLinks(config)
    /\ newResult = "err_link" /\ ownerPc = "new_unwind" => ~LinkingPermitted(config)

\* The variable an environment of this variant extends.
VariantKey(self) == IF self.variant = "Wrapper" THEN "PATH" ELSE KEY_PRELOAD_PATH

\* The value a variable has in the environment of the process; "" when unset.
CurrentValue(key) == IF pProcess[key].set THEN pProcess[key].text ELSE <<>>

HasColon(str) == \E i \in DOMAIN str : str[i] = ":"
Occurrences(paths, x) == Cardinality({i \in DOMAIN paths : paths[i] = x})

\* The entries of the returned list are `first`, then the entries of
\* `original` that differ from `first`, in their order; `first` occurs once.
EntriesAsClaimed ==
    LET entries == split(pResult[2])
    IN  /\ entries[1] = pFirst
        /\ Tail(entries) = SelectSeq(split(pOriginal), LAMBDA e : e # pFirst)
        /\ Occurrences(entries, pFirst) = 1

\* C8, as stated: for every original and first, insert_to_path returns the
\* list with first at position 0, then the other entries of original in
\* order, so that first occurs exactly once.
C8_AnyFirst == pResult[1] => EntriesAsClaimed

\* C8, amended: the same, for a first that contains no ':'.
C8_InsertToPath == (pResult[1] /\ ~HasColon(pFirst)) => EntriesAsClaimed

C8_Witness ==
    /\ pOriginal = <<"a", ":", "b">>
    /\ pFirst = <<"a">>
    /\ pResult = <<TRUE, <<"a", ":", "b">>>>

\* C9: an empty original yields just first, a single path that holds no
\* delimiter, with no delimiter before or after it; and when the variable of
\* the variant is unset or empty the overlay value is exactly the inserted
\* path.
C9_EmptyOriginal ==
    /\ (pResult[1] /\ pOriginal = <<>> /\ ~HasColon(pFirst)) => pResult[2] = pFirst
    /\ (pOverlay # <<>> /\ CurrentValue(VariantKey(pSelf)) = <<>> /\ ~HasColon(pFirst))
          => pOverlay[1][2] = path_to_string(pSelf.path)

\* C10: the overlay is exactly two pairs: the variable of the variant (PATH
\* for Wrapper, LD_PRELOAD for Preload) set to insert_to_path of its current
\* value and the path of the directory or library (a path that holds no
\* ':'), and INTERCEPT_REPORTER_ADDRESS set to the address of the service.
C10_Overlay ==
    (pOverlay # <<>> /\ ~HasColon(pSelf.path.text)) =>
        pOverlay = << <<VariantKey(pSelf),
                        insert_to_path(CurrentValue(VariantKey(pSelf)), pSelf.path.text)>>,
                      <<"INTERCEPT_REPORTER_ADDRESS", pCollector>> >>

\* C11: execute_build_command maps the terminal status of the child to the
\* exit code: a child that exited with code c yields Ok(c), a value in
\* 0..255; a child killed by a signal yields Ok(FAILURE).
C11_ExitCodeMapping ==
    /\ [][(ownerPc = "supervising" /\ ownerPc' = "env") =>
            /\ child[1] = "exited" => execResult' = <<"ok", child[2]>>
            /\ child[1] = "signaled" => execResult' = <<"ok", FAILURE>>]_vars
    /\ [](execResult[1] = "ok" => execResult[2] \in 0..255)

C11_Witness ==
    /\ ownerPc = "env"
    /\ execResult = <<"ok", 3>>

\* C12: execute_build_command returns an error exactly when the command could
\* not be started: the error comes from the step that starts the child and
\* leaves no child behind, a failed start never yields an exit code, and a
\* child that was started always ends in Ok with an exit code.
C12_ErrorIffNotStarted ==
    /\ [][(execResult'[1] = "err" /\ execResult[1] # "err") =>
            (ownerPc = "spawn" /\ child[1] = "none" /\ child'[1] = "none")]_vars
    /\ [][(ownerPc = "spawn" /\ ownerPc' # "spawn" /\ child'[1] = "none") =>
            (execResult' = <<"err", 0>> /\ ownerPc' = "env")]_vars
    /\ [][(ownerPc = "supervising" /\ ownerPc' # "supervising") =>
            (execResult'[1] = "ok" /\ child[1] \in {"exited", "signaled"})]_vars
    /\ [](child[1] # "none" => execResult[1] = "running")

C12_Witness ==
    /\ ownerPc = "env"
    /\ execResult = <<"err", 0>>
    /\ child[1] = "none"

\* C13: when new() fails (the temporary directory or a hard link cannot be
\* made) there is no environment value and no build command is ever run, and
\* the service handed to new() is shut down: stop() is called and both
\* workers are joined, unless stop() fails or a worker panics.
NewFailed == newResult \in {"err_tempdir", "err_link"}
C13_FailedNewShutsDown ==
    /\ [](NewFailed => /\ env = "None"
                       /\ builds = 0
                       /\ child[1] = "none"
                       /\ ownerPc \in {"new_unwind"} \cup ReleasedPcs)
    /\ NewFailed ~> \/ /\ ownerPc = "done"
                       /\ stopCalls = 1
                       /\ netPc = "done"
                       /\ outPc = "done"
                    \/ ShutdownFault

C13_Witness ==
    /\ newResult = "err_tempdir"
    /\ ownerPc = "done"
    /\ stopCalls = 1
    /\ netPc = "done"
    /\ outPc = "done"
    /\ \E c \in Reporters : consumed[c] # <<>>

\* The envelopes of a connection that collect() has forwarded to the channel.
Forwarded(c) == SubSeq(sent[c], 1, Len(sent[c]) - Len(backlog[c]))

\* The consumer has seen the channel closed and returned Ok.
ConsumerSawClosure == outPc = "done" /\ outResult = "ok"

\* The consumer itself failed.
ConsumerFault == outResult = "err" \/ outPc = "panicked"

\* C14: after collect() has failed with a transport error the network worker
\* has ended; the consumer, unless it fails itself, goes on to receive every
\* envelope that was forwarded into the channel and then returns Ok on
\* closure; and a later shutdown still completes, unless stop() fails or the
\* consumer panics.
C14_TransportError ==
    /\ [](netResult = "err" => netPc = "done")
    /\ []((netResult = "err" /\ ConsumerSawClosure) =>
            (chan = <<>> /\ \A c \in Reporters : consumed[c] = Forwarded(c)))
    /\ (netResult = "err") ~> (ConsumerSawClosure \/ ConsumerFault)
    /\ (netResult = "err" /\ ownerPc = "drop_stop")
          ~> (ownerPc = "done" \/ ownerPc = "panic_stop" \/ outPc = "panicked")

C14_Witness ==
    /\ netResult = "err"
    /\ ConsumerSawClosure
    /\ ownerPc = "done"
    /\ \E c \in Reporters : consumed[c] # <<>> /\ backlog[c] # <<>>

\* C15: a consumer that returned early with an error does not stop the
\* network worker: every envelope delivered to the collector is still
\* forwarded by collect() unless collect() itself fails, collect() returns Ok
\* only after stop(), and a shutdown still completes unless stop() fails or
\* the network worker panics.
C15_ConsumerFailureIsolated ==
    /\ [][(outResult = "err" /\ netPc = "collecting" /\ netPc' = "done" /\ netResult' = "ok")
            => stopped]_vars
    /\ \A c \in Reporters : \A n \in 1..MaxEvents :
          (outResult = "err" /\ Len(sent[c]) >= n)
              ~> (Len(Forwarded(c)) >= n \/ netResult = "err" \/ netPc = "panicked")
    /\ (outResult = "err" /\ ownerPc = "drop_stop")
          ~> (ownerPc = "done" \/ ownerPc = "panic_stop" \/ netPc = "panicked")

C15_Witness ==
    /\ outResult = "err"
    /\ netPc = "collecting"
    /\ ~stopped
    /\ chan = <<>>
    /\ \A c \in Reporters : consumed[c] = <<>>
    /\ \E c \in Reporters : Len(Forwarded(c)) = MaxEvents

\* C16: when the consumer has seen the channel closed, the network worker has
\* ended and its sender with it; nothing can be forwarded any more.
C16_ClosureAfterSenderRetired ==
    ConsumerSawClosure =>
        /\ WorkerEnded(netPc)
        /\ ~SenderAlive
        /\ \A c \in Reporters : ~ENABLED CollectForward(c)

C16_Witness ==
    /\ ConsumerSawClosure
    /\ netPc = "done"
    /\ netResult = "ok"
    /\ ownerPc = "drop_join_out"
    /\ \A c \in Reporters : consumed[c] = sent[c] /\ Len(sent[c]) = MaxEvents

\* C17: the network worker never waits for the processing worker: while
\* collect() runs, an envelope it holds can always be forwarded, however many
\* are buffered; and with a consumer that may stall for ever, every envelope
\* delivered is still forwarded and the join of the network worker in drop()
\* still completes.
C17_NetworkNeverBlocks ==
    /\ [](\A c \in Reporters :
            (netPc = "collecting" /\ backlog[c] # <<>>) => ENABLED CollectForward(c))
    /\ \A c \in Reporters : \A n \in 1..MaxEvents :
          (Len(sent[c]) >= n)
              ~> (Len(Forwarded(c)) >= n \/ netResult = "err" \/ netPc = "panicked")
    /\ (ownerPc = "drop_join_net") ~> (ownerPc \in {"drop_join_out", "panic_join_net"})

C17_Witness ==
    /\ ownerPc = "drop_join_out"
    /\ netPc = "done"
    /\ netResult = "ok"
    /\ outPc = "consuming"
    /\ Len(chan) = MaxEvents * Cardinality(Reporters)
    /\ \A c \in Reporters : consumed[c] = <<>>

\* Where the owner is after a step of drop() has panicked.
PanicPcs == {"panic_stop", "panic_join_net", "panic_join_out"}

\* C18: a failed step of drop() ends the shutdown there: after a failed
\* stop() no worker is joined, after a failed join of the network worker the
\* processing worker is not joined, the owner never leaves the failed step,
\* and drop() finishes only when stop() returned Ok and both workers ended
\* without a panic.
C18_ShutdownFailureIsFatal ==
    /\ [](stopResult = "err" => ownerPc = "panic_stop")
    /\ [](ownerPc = "panic_join_net" => (stopResult = "ok" /\ netPc = "panicked"))
    /\ [](ownerPc = "panic_join_out" => (stopResult = "ok" /\ outPc = "panicked"))
    /\ [][(ownerPc \in PanicPcs) => (ownerPc' = ownerPc)]_vars
    /\ [][(ownerPc' \in JoinOutPcs /\ ownerPc \notin JoinOutPcs)
            => (ownerPc = "drop_join_net" /\ netPc = "done")]_vars
    /\ [](ownerPc = "done" => (stopResult = "ok" /\ netPc = "done" /\ outPc = "done"))

C18_Witness ==
    /\ ownerPc = "panic_join_net"
    /\ netPc = "panicked"
    /\ outPc = "consuming"
    /\ \E c \in Reporters : chan # <<>> /\ consumed[c] # <<>>

\* C19: for every build command, also one with no arguments, a call of
\* execute_build_command ends by returning an exit code in 0..255 or an
\* error, never by a panic of the calling thread; and no child is started
\* when there is no argv[0].
C19_Total ==
    /\ execResult[1] \in {"none", "running", "ok", "err"}
    /\ execResult[1] = "ok" => execResult[2] \in 0..255
    /\ execResult[1] = "panic" => child[1] = "none"

\* C20, as stated: for every original and first a second insert_to_path of
\* the same first returns its argument, and the overlay computed again in a
\* process that carries the overlay is the same overlay.
C20_AnyFirst ==
    /\ pAgain[1] => pAgain[2] = pResult[2]
    /\ pNested # <<>> => pNested = pOverlay

\* C20, amended: the same, for a first and a path that contain no ':'.
C20_Idempotent ==
    /\ (pAgain[1] /\ ~HasColon(pFirst)) => pAgain[2] = pResult[2]
    /\ (pNested # <<>> /\ ~HasColon(pFirst)) => pNested = pOverlay

C20_Witness ==
    /\ pOriginal = <<"b", ":", "a">>
    /\ pFirst = <<"a">>
    /\ pResult = <<TRUE, <<"a", ":", "b">>>>
    /\ pAgain = pResult
    /\ pNested # <<>>
    /\ pNested = pOverlay

====
